---- MODULE Spec2Model ----
(***************************************************************************)
(* A model of standalone_chessclock.py: the ChessClock object, the event   *)
(* flow (main -> handle_game_start -> start_new_game -> initialize_clock / *)
(* move_made) and the countdown thread (time_keeper).                      *)
(*                                                                         *)
(* Time is counted in units of TIME_REFRESH (half a second in the source). *)
(* A timedelta is an integer number of such units, a datetime the integer  *)
(* value of the wall clock `now`.  An optional attribute is <<>> for None  *)
(* and <<v>> for a value v.                                                *)
(***************************************************************************)
EXTENDS Integers, Sequences, FiniteSets, TLC

\* ------------------------------------------------------------------ bounds
\* the wall clock runs from 0 to MaxNow
MaxNow == 2
\* the largest remaining time a lichess snapshot carries
MaxTime == 2
\* how many games (gameStart events) main handles
MaxGames == 2
\* how many gameState events one game's stream delivers
MaxMoves == 1
\* how many calls a client of the object makes to the terminal commands
MaxCalls == 1
\* how many times a client of the object calls updateLCD
MaxRenders == 2

\* ------------------------------------------------------- program constants
\* sleep(chess_clock.TIME_REFRESH): one time unit
TIME_REFRESH == 1
\* TIME_REFRESH is half a second: a second is two time units
UnitsPerSecond == 2
\* self.lcd_length
lcd_length == 16

None == <<>>
Some(v) == <<v>>
Val(o) == o[1]
\* an attribute that was never assigned: reading it raises AttributeError
Missing == <<0, 0>>
\* an attribute that holds no value: never assigned, or None
Absent(o) == Len(o) # 1

\* the event types of berserk's stream_game_state that the code tells apart:
\* only "gameFull" carries event["state"], only "gameState" is a move
EventTypes == {"gameFull", "gameState", "chatLine"}
\* the status field of a game state; anything but "started" ends the game
Statuses == {"started", "resign", "draw", "outoftime"}
NoEvent == [type |-> "none", status |-> "none"]

\* one write() on the serial port: a command byte, or the 2 x lcd_length
\* characters of a timestamp, kept as the two durations it was built from
Cmd(c) == [code |-> c, wtime |-> 0, btime |-> 0]
Frame(w, b) == [code |-> "text", wtime |-> w, btime |-> b]

\* ---------------------------------------------------- the frame's text
\* the decimal digits of n >= 0, padded with zeros to width characters ("%02d")
RECURSIVE ZeroPad(_, _)
ZeroPad(n, width) ==
    IF width = 0 THEN ""
    ELSE ZeroPad(n \div 10, width - 1) \o SubSeq("0123456789", (n % 10) + 1, (n % 10) + 1)

\* "%d" of an integer
RECURSIVE Dec(_)
Dec(n) ==
    IF n < 0 THEN "-" \o Dec(0 - n)
    ELSE IF n < 10 THEN ZeroPad(n, 1)
    ELSE Dec(n \div 10) \o ZeroPad(n % 10, 1)

\* str(timedelta): "[D day[s], ]H:MM:SS[.ffffff]" of the normalized value
\* (days of either sign, 0 <= seconds < 86400, 0 <= microseconds < 10^6)
str_timedelta(d) ==
    LET days == d \div (86400 * UnitsPerSecond)
        rest == d % (86400 * UnitsPerSecond)
        seconds == rest \div UnitsPerSecond
        microseconds == (rest % UnitsPerSecond) * (1000000 \div UnitsPerSecond)
    IN  (IF days = 0 THEN ""
         ELSE Dec(days) \o " day" \o (IF days \in {1, -1} THEN "" ELSE "s") \o ", ")
        \o Dec(seconds \div 3600)
        \o ":" \o ZeroPad((seconds \div 60) % 60, 2)
        \o ":" \o ZeroPad(seconds % 60, 2)
        \o (IF microseconds = 0 THEN "" ELSE "." \o ZeroPad(microseconds, 6))

\* create_timestamp, lines 310-311 / 317-318: while len(...) < lcd_length
RECURSIVE pad(_)
pad(line) == IF Len(line) < lcd_length THEN pad(line \o " ") ELSE line

\* a variant of the operator below that never shortens a line
lcd_line_padded_only(line) == pad(line)

\* create_timestamp, lines 307-311 / 314-318
lcd_line(line) ==
    IF Len(line) > lcd_length THEN SubSeq(line, 1, lcd_length) ELSE pad(line)

\* create_timestamp, lines 306-320: the string it returns
timestamp(wtime, btime) ==
    lcd_line("W: " \o str_timedelta(wtime)) \o lcd_line("B: " \o str_timedelta(btime))

\* the characters of one write(): message.encode(), lines 207 and 210
Bytes(w) == IF w.code = "text" THEN timestamp(w.wtime, w.btime) ELSE w.code

VARIABLES
    now,                \* datetime.now()
    displayed_wtime,    \* self.displayed_wtime
    displayed_btime,    \* self.displayed_btime
    move_time,          \* self.move_time
    time_left_at_move,  \* self.time_left_at_move
    white_to_move,      \* self.white_to_move (Event)
    game_over_event,    \* self.game_over_event (Event)
    out,                \* what was written to self.chess_clock since the
                        \* latest NEW_GAME command (that one included), in order
    ev_pc,              \* where the main thread is
    event,              \* the loop variable `event` of start_new_game
    init_event,         \* <<wtime, btime>> of the event given to initialize_clock
    game,               \* number of start_new_game calls so far
    moves,              \* number of move_made calls of this game so far
    tk_pc,              \* where the countdown thread is ("none": countdown is
                        \* None; "raised": ended by an exception it raised,
                        \* the only way out of time_keeper's loop)
    l_wtm,              \* time_keeper: the branch taken at line 360
    l_tlam,             \* time_keeper: time_left_at_move as read
    l_now,              \* time_keeper: datetime.now() as read
    l_mt,               \* time_keeper: move_time as read
    l_ids,              \* the move_made calls that wrote what time_keeper read
    wake,               \* time_keeper: when the current sleep ends
    calls               \* number of client calls so far

vars == <<now, displayed_wtime, displayed_btime, move_time, time_left_at_move,
          white_to_move, game_over_event, out, ev_pc, event, init_event, game,
          moves, tk_pc, l_wtm, l_tlam, l_now, l_mt, l_ids, wake, calls>>

clock_vars == <<displayed_wtime, displayed_btime, move_time, time_left_at_move,
                white_to_move>>
tk_locals == <<l_wtm, l_tlam, l_now, l_mt, l_ids>>
ev_vars == <<ev_pc, event, init_event, game, moves>>

\* ChessClock.__init__ (move_time is not assigned there)
Init ==
    /\ now = 0
    /\ displayed_wtime = None
    /\ displayed_btime = None
    /\ move_time = Missing
    /\ time_left_at_move = None
    /\ white_to_move = FALSE
    /\ game_over_event = FALSE
    /\ out = <<>>
    /\ ev_pc = "idle"
    /\ event = NoEvent
    /\ init_event = <<0, 0>>
    /\ game = 0
    /\ moves = 0
    /\ tk_pc = "none"
    /\ l_wtm = FALSE
    /\ l_tlam = 0
    /\ l_now = 0
    /\ l_mt = 0
    /\ l_ids = <<0, 0, 0>>
    /\ wake = 0
    /\ calls = 0

\* the process is gone once main has died of an uncaught exception
Running == ev_pc # "crashed"

\* a variant of the operator below: a thread that is running is not noticed
is_alive_not_noticed == FALSE

\* self.countdown.is_alive()
is_alive == tk_pc \notin {"none", "raised", "failed"}

\* the wall clock advances
Tick ==
    /\ Running
    /\ now < MaxNow
    /\ now' = now + 1
    /\ UNCHANGED <<clock_vars, game_over_event, out, ev_vars, tk_pc, tk_locals,
                   wake, calls>>

\* ---------------------------------------------------------- the commands
\* did_flag(player_time)
did_flag(player_time) == player_time <= 0

\* a variant of the operator below that writes '2' whatever display_message is
game_over_always_displays(o, display_message) ==
    /\ game_over_event' = TRUE
    /\ out' = Append(o, Cmd("2"))

\* game_over(display_message), after o was written
game_over(o, display_message) ==
    /\ game_over_event' = TRUE
    /\ out' = IF display_message THEN Append(o, Cmd("2")) ELSE o

white_won == game_over(Append(out, Cmd("6")), FALSE)
black_won == game_over(Append(out, Cmd("7")), FALSE)
drawn_game == game_over(Append(out, Cmd("8")), FALSE)
show_splash == out' = Append(out, Cmd("5"))

\* create_timestamp(wtime, btime), lines 302-304: with self.time_lock
create_timestamp(wtime, btime) ==
    /\ displayed_wtime' = Some(wtime)
    /\ displayed_btime' = Some(btime)


\* move_made, lines 168-175: the time the call records as time_left_at_move
move_made_capture == IF white_to_move THEN displayed_wtime ELSE displayed_btime

\* ------------------------------------------------ the event flow (main)
\* main, line 505: a gameStart event; start_new_game, lines 216-225
start_new_game ==
    /\ ev_pc = "idle"
    /\ game < MaxGames
    /\ out' = <<Cmd("4")>>
    /\ white_to_move' = TRUE
    /\ game' = game + 1
    /\ ev_pc' = "first"
    /\ UNCHANGED <<now, displayed_wtime, displayed_btime, move_time,
                   time_left_at_move, game_over_event, event, init_event, moves,
                   tk_pc, tk_locals, wake, calls>>

\* start_new_game, lines 226-230: the first event of the stream, and
\* initialize_clock(event), lines 279-285
FirstEvent ==
    /\ ev_pc = "first"
    /\ \E type \in EventTypes :
        event' = [type |-> type,
                  status |-> IF type = "gameState" THEN "started" ELSE "none"]
    /\ IF is_alive
       THEN \* line 281: raise Exception("... still alive")
            /\ ev_pc' = "crashed"
            /\ UNCHANGED <<move_time, white_to_move>>
       ELSE /\ move_time' = None
            /\ white_to_move' = TRUE
            /\ ev_pc' = "l288"
    /\ UNCHANGED <<now, displayed_wtime, displayed_btime, time_left_at_move,
                   game_over_event, out, init_event, game, moves, tk_pc,
                   tk_locals, wake, calls>>

\* initialize_clock, lines 288-291: the times of init_event["state"], which
\* only a gameFull event has (KeyError otherwise)
initialize_clock_288 ==
    /\ ev_pc = "l288"
    /\ IF event.type # "gameFull"
       THEN /\ ev_pc' = "crashed"
            /\ UNCHANGED <<displayed_wtime, displayed_btime, time_left_at_move,
                           init_event>>
       ELSE \E w \in 1..MaxTime, b \in 1..MaxTime :
            /\ init_event' = <<w, b>>
            /\ displayed_wtime' = Some(w)
            /\ displayed_btime' = Some(b)
            /\ time_left_at_move' = None
            /\ ev_pc' = "l293"
    /\ UNCHANGED <<now, move_time, white_to_move, game_over_event, out, event,
                   game, moves, tk_pc, tk_locals, wake, calls>>

\* a variant of the step below in which the countdown thread is started before
\* the seeding move_made() has recorded time_left_at_move
initialize_clock_293_thread_first ==
    /\ ev_pc = "l293"
    /\ move_time' = Some(now)
    /\ moves' = 1
    /\ tk_pc' = "top"
    /\ ev_pc' = "l296"
    /\ UNCHANGED <<now, displayed_wtime, displayed_btime, time_left_at_move,
                   white_to_move, game_over_event, out, event, init_event, game,
                   tk_locals, wake, calls>>

\* initialize_clock, line 293: move_made(), as far as its line 166
initialize_clock_293 ==
    /\ ev_pc = "l293"
    /\ move_time' = Some(now)
    /\ moves' = 1
    /\ ev_pc' = "l296"
    /\ UNCHANGED <<now, displayed_wtime, displayed_btime, time_left_at_move,
                   white_to_move, game_over_event, out, event, init_event, game,
                   tk_pc, tk_locals, wake, calls>>

\* the rest of that move_made(), lines 168-172, then lines 296-297: the
\* countdown thread is started
initialize_clock_296 ==
    /\ ev_pc = "l296"
    /\ time_left_at_move' = move_made_capture
    /\ white_to_move' = ~white_to_move
    /\ tk_pc' = "top"
    /\ ev_pc' = "stream"
    /\ UNCHANGED <<now, displayed_wtime, displayed_btime, move_time,
                   game_over_event, out, event, init_event, game, moves,
                   tk_locals, wake, calls>>

\* start_new_game, lines 226-235: a later event of the stream (lichess sends
\* gameFull first only, and nothing after a game state whose status ends the
\* game).  For a gameState event, line 234 and move_made's line 166 assign
\* datetime.now() to move_time, one right after the other.
NextEvent ==
    /\ ev_pc = "stream"
    /\ event.status \in {"none", "started"}
    /\ \E type \in EventTypes \ {"gameFull"}, status \in Statuses :
        /\ type = "gameState" => moves <= MaxMoves
        /\ event' = [type |-> type,
                     status |-> IF type = "gameState" THEN status ELSE "none"]
        /\ ev_pc' = IF type = "gameState" THEN "l169" ELSE "stream"
        /\ moves' = IF type = "gameState" THEN moves + 1 ELSE moves
        /\ move_time' = IF type = "gameState" THEN Some(now) ELSE move_time
    /\ UNCHANGED <<now, displayed_wtime, displayed_btime, time_left_at_move,
                   white_to_move, game_over_event, out, init_event, game, tk_pc,
                   tk_locals, wake, calls>>

\* the stream ends: start_new_game returns to main's event loop
StreamEnd ==
    /\ ev_pc \in {"first", "stream"}
    /\ ev_pc' = "idle"
    /\ UNCHANGED <<now, clock_vars, game_over_event, out, event, init_event,
                   game, moves, tk_pc, tk_locals, wake, calls>>

\* move_made, lines 168-170 / 174-175: under time_lock
move_made_169 ==
    /\ ev_pc = "l169"
    /\ time_left_at_move' = move_made_capture
    /\ ev_pc' = "l172"
    /\ UNCHANGED <<now, displayed_wtime, displayed_btime, move_time,
                   white_to_move, game_over_event, out, event, init_event, game,
                   moves, tk_pc, tk_locals, wake, calls>>

\* move_made, line 172 / 177
move_made_172 ==
    /\ ev_pc = "l172"
    /\ white_to_move' = ~white_to_move
    /\ ev_pc' = "stream"
    /\ UNCHANGED <<now, displayed_wtime, displayed_btime, move_time,
                   time_left_at_move, game_over_event, out, event, init_event,
                   game, moves, tk_pc, tk_locals, wake, calls>>

\* which move_made call of this game wrote the current value of each attribute
mt_id == moves
tlam_id == IF ev_pc = "l169" THEN moves - 1 ELSE moves
wtm_id == IF ev_pc \in {"l169", "l172"} THEN moves - 1 ELSE moves

\* --------------------------------------- the countdown thread (time_keeper)
NoLocals ==
    /\ l_wtm' = FALSE
    /\ l_tlam' = 0
    /\ l_now' = 0
    /\ l_mt' = 0
    /\ l_ids' = <<0, 0, 0>>

\* lines 340-357: the top of an iteration
time_keeper_340 ==
    /\ Running
    /\ tk_pc = "top"
    /\ IF game_over_event
       THEN tk_pc' = "raised" /\ wake' = wake          \* raise NicLinkGameOver
       ELSE IF move_time = Missing
       THEN tk_pc' = "raised" /\ wake' = wake          \* line 346: AttributeError
       ELSE IF \/ move_time = None \/ time_left_at_move = None
               \/ displayed_btime = None \/ displayed_wtime = None
       THEN tk_pc' = "l387" /\ wake' = now + TIME_REFRESH
       ELSE tk_pc' = "l360" /\ wake' = wake
    /\ UNCHANGED <<now, clock_vars, game_over_event, out, ev_vars, tk_locals,
                   calls>>

\* line 360: white_to_move.is_set()
time_keeper_360 ==
    /\ Running
    /\ tk_pc = "l360"
    /\ l_wtm' = white_to_move
    /\ l_ids' = <<wtm_id, 0, 0>>
    /\ tk_pc' = "l363"
    /\ UNCHANGED <<now, clock_vars, game_over_event, out, ev_vars, l_tlam,
                   l_now, l_mt, wake, calls>>

\* lines 363-364 / 376-377: the left operand, chess_clock.time_left_at_move,
\* then datetime.now()
time_keeper_363 ==
    /\ Running
    /\ tk_pc = "l363"
    /\ l_tlam' = Val(time_left_at_move)
    /\ l_now' = now
    /\ l_ids' = <<l_ids[1], tlam_id, 0>>
    /\ tk_pc' = "l364"
    /\ UNCHANGED <<now, clock_vars, game_over_event, out, ev_vars, l_wtm, l_mt,
                   wake, calls>>

\* lines 364 / 377: chess_clock.move_time
time_keeper_364 ==
    /\ Running
    /\ tk_pc = "l364"
    /\ l_mt' = Val(move_time)
    /\ l_ids' = <<l_ids[1], l_ids[2], mt_id>>
    /\ tk_pc' = "l367"
    /\ UNCHANGED <<now, clock_vars, game_over_event, out, ev_vars, l_wtm,
                   l_tlam, l_now, wake, calls>>

\* new_wtime / new_btime: time_left_at_move - (datetime.now() - move_time)
new_time == l_tlam - (l_now - l_mt)

\* lines 367 / 381: the time that is tested for a flag
flag_checked == IF l_wtm THEN new_time ELSE Val(displayed_btime)

\* lines 371 / 385: updateLCD(...) -> create_timestamp(...), lines 302-304
updateLCD ==
    IF l_wtm THEN create_timestamp(new_time, Val(displayed_btime))
    ELSE create_timestamp(Val(displayed_btime), new_time)

\* lines 367-371 / 381-385: the flag check, then white_won() / black_won() and
\* the raise, or updateLCD as far as create_timestamp's assignments
time_keeper_367 ==
    /\ Running
    /\ tk_pc = "l367"
    /\ IF did_flag(flag_checked)
       THEN /\ IF l_wtm THEN white_won ELSE black_won
            /\ tk_pc' = "raised"
            /\ NoLocals
            /\ UNCHANGED <<displayed_wtime, displayed_btime>>
       ELSE /\ updateLCD
            /\ tk_pc' = "l207"
            /\ UNCHANGED <<game_over_event, out, tk_locals>>
    /\ UNCHANGED <<now, move_time, time_left_at_move, white_to_move, ev_vars,
                   wake, calls>>

\* send_string, line 207
send_string_207 ==
    /\ Running
    /\ tk_pc = "l207"
    /\ out' = Append(out, Cmd("3"))
    /\ tk_pc' = "l210"
    /\ UNCHANGED <<now, clock_vars, game_over_event, ev_vars, tk_locals, wake,
                   calls>>

\* send_string, line 210; then sleep(TIME_REFRESH), line 387
send_string_210 ==
    /\ Running
    /\ tk_pc = "l210"
    /\ out' = Append(out, Frame(Val(displayed_wtime), Val(displayed_btime)))
    /\ tk_pc' = "l387"
    /\ wake' = now + TIME_REFRESH
    /\ NoLocals
    /\ UNCHANGED <<now, clock_vars, game_over_event, ev_vars, calls>>

\* line 387 (347, 350, 353, 356): the sleep is over
time_keeper_387 ==
    /\ Running
    /\ tk_pc = "l387"
    /\ now >= wake
    /\ tk_pc' = "top"
    /\ wake' = 0
    /\ UNCHANGED <<now, clock_vars, game_over_event, out, ev_vars, tk_locals,
                   calls>>

\* ------------------------------------------------------ the specification
Next ==
    \/ Tick
    \/ start_new_game
    \/ FirstEvent
    \/ initialize_clock_288
    \/ initialize_clock_293
    \/ initialize_clock_296
    \/ NextEvent
    \/ StreamEnd
    \/ move_made_169
    \/ move_made_172
    \/ time_keeper_340
    \/ time_keeper_360
    \/ time_keeper_363
    \/ time_keeper_364
    \/ time_keeper_367
    \/ send_string_207
    \/ send_string_210
    \/ time_keeper_387

Spec == Init /\ [][Next]_vars

\* --------------------------- a client calling the object's terminal commands
\* game_over(display_message), white_won(), black_won(), drawn_game() called
\* from another thread than the countdown's
ClientCall ==
    /\ Running
    /\ calls < MaxCalls
    /\ calls' = calls + 1
    /\ \/ \E display_message \in BOOLEAN : game_over(out, display_message)
       \/ white_won
       \/ black_won
       \/ drawn_game
    /\ UNCHANGED <<now, clock_vars, ev_vars, tk_pc, tk_locals, wake>>

NextAPI == Next \/ ClientCall

SpecAPI == Init /\ [][NextAPI]_vars

\* ------------------------------------------------ a failing serial port
\* send_string, line 207 or 210: write() raises (serial.SerialException);
\* nothing in time_keeper or in Thread catches it, the thread ends
write_fails ==
    /\ Running
    /\ tk_pc \in {"l207", "l210"}
    /\ tk_pc' = "failed"
    /\ NoLocals
    /\ UNCHANGED <<now, clock_vars, game_over_event, out, ev_vars, wake, calls>>

NextFail == Next \/ write_fails

SpecFail == Init /\ [][NextFail]_vars

\* ------------------- the object used directly, as test_chessclock uses it
\* lines 413-414: the displayed times are assigned from outside
set_displayed ==
    /\ tk_pc = "none"
    /\ displayed_wtime = None
    /\ \E w \in 1..MaxTime, b \in 1..MaxTime :
        /\ displayed_wtime' = Some(w)
        /\ displayed_btime' = Some(b)
    /\ UNCHANGED <<now, move_time, time_left_at_move, white_to_move,
                   game_over_event, out, ev_vars, tk_pc, tk_locals, wake, calls>>

\* line 416: move_made() is called from outside a game, no countdown running
call_move_made ==
    /\ tk_pc = "none"
    /\ moves <= MaxMoves
    /\ move_time' = Some(now)
    /\ time_left_at_move' = move_made_capture
    /\ white_to_move' = ~white_to_move
    /\ moves' = moves + 1
    /\ UNCHANGED <<now, displayed_wtime, displayed_btime, game_over_event, out,
                   ev_pc, event, init_event, game, tk_pc, tk_locals, wake, calls>>

\* ChessClock.time_keeper(chess_clock) is run on the object as it is
call_time_keeper ==
    /\ tk_pc = "none"
    /\ tk_pc' = "top"
    /\ UNCHANGED <<now, clock_vars, game_over_event, out, ev_vars, tk_locals,
                   wake, calls>>

NextTick ==
    \/ Tick
    \/ set_displayed
    \/ call_move_made
    \/ call_time_keeper
    \/ time_keeper_340
    \/ time_keeper_360
    \/ time_keeper_363
    \/ time_keeper_364
    \/ time_keeper_367
    \/ send_string_207
    \/ send_string_210
    \/ time_keeper_387

SpecTick == Init /\ [][NextTick]_vars

\* the durations a client hands to updateLCD: negative, zero, with and without
\* a fraction of a second, hours of two digits, a day
Durations == {-1, 0, 1, 2, 72000, 172800}

\* updateLCD(wtime, btime) called from outside a game, as test_chessclock
\* does at line 418: create_timestamp, then send_string
call_updateLCD ==
    /\ tk_pc = "none"
    /\ calls < MaxRenders
    /\ calls' = calls + 1
    /\ \E wtime \in Durations, btime \in Durations :
        /\ create_timestamp(wtime, btime)
        /\ out' = out \o <<Cmd("3"), Frame(wtime, btime)>>
    /\ UNCHANGED <<now, move_time, time_left_at_move, white_to_move,
                   game_over_event, ev_vars, tk_pc, tk_locals, wake>>

NextRender == call_updateLCD

SpecRender == Init /\ [][NextRender]_vars

\* show_splash() called from outside a game
call_show_splash ==
    /\ tk_pc = "none"
    /\ calls < MaxRenders
    /\ calls' = calls + 1
    /\ show_splash
    /\ UNCHANGED <<now, clock_vars, game_over_event, ev_vars, tk_pc, tk_locals,
                   wake>>

\* the commands called one after the other by one thread: the terminal
\* commands, the splash, updateLCD, and start_new_game on a stream that
\* delivers nothing
NextCommands ==
    \/ ClientCall
    \/ call_show_splash
    \/ call_updateLCD
    \/ start_new_game
    \/ StreamEnd

SpecCommands == Init /\ [][NextCommands]_vars

\* ------------------------------------------------------------- the claims
\* the side whose time time_keeper extrapolates (line 360)
LiveIsWhite == l_wtm

\* the commands that end a game on the clock
TerminalCodes == {"2", "6", "7", "8"}
TerminalCount(o) == Cardinality({i \in 1..Len(o) : o[i].code \in TerminalCodes})
EndStatuses == Statuses \ {"started"}

\* the steps of the countdown thread that the claims are about
TickFlags == tk_pc = "l367" /\ tk_pc' = "raised"
TickStores == tk_pc = "l367" /\ tk_pc' = "l207"
TickSends3 == tk_pc = "l207" /\ tk_pc' = "l210"
TickSendsText == tk_pc = "l210" /\ tk_pc' = "l387"

\* what the tick read was all written by the latest move_made call, no
\* move_made call is under way, and no later start_new_game has set the turn
Untorn ==
    /\ l_ids = <<moves, moves, moves>>
    /\ ev_pc \in {"stream", "idle"}
    /\ white_to_move = l_wtm
    /\ white_to_move <=> (moves % 2 = 0)

\* C1: when a tick finds that the live side has flagged, the command it writes
\* names the other side as the winner (BLACK_WON '7' if white flagged,
\* WHITE_WON '6' if black flagged) and the game is over.
C1_Claim ==
    [][(TickFlags /\ Untorn) =>
          /\ out' = Append(out, Cmd(IF LiveIsWhite THEN "7" ELSE "6"))
          /\ game_over_event']_vars

\* C2: a tick declares a flag exactly when the time it has just extrapolated
\* for the live side is <= 0; it then writes the one WON command, and no
\* SHOW_TEXT frame ever carries a time that is <= 0.
C2_Claim ==
    [][/\ (tk_pc = "l367" /\ tk_pc' # "l367") =>
            /\ TickFlags <=> did_flag(new_time)
            /\ TickFlags => TerminalCount(out') = TerminalCount(out) + 1
       /\ TickSendsText =>
            /\ out'[Len(out')].wtime > 0
            /\ out'[Len(out')].btime > 0]_vars

\* C3: after initialize(w, b) and the seeding move_made at t0, a tick at t0 + d
\* that does not flag leaves (w - d, b); after one further move_made at t1, a
\* tick at t1 + e leaves white's time as it was and black's at b - e.
C3_Claim ==
    [][(TickStores /\ Untorn) =>
          /\ (moves = 1 /\ init_event[1] - (l_now - l_mt) > 0) =>
                /\ displayed_wtime' = Some(init_event[1] - (l_now - l_mt))
                /\ displayed_btime' = Some(init_event[2])
          /\ (moves = 2 /\ init_event[2] - (l_now - l_mt) > 0) =>
                /\ displayed_wtime' = displayed_wtime
                /\ displayed_btime' = Some(init_event[2] - (l_now - l_mt))]_vars

\* C4: a tick writes only the stored time of the live side, and never
\* increases it; the other side's stored time stays as it is.
C4_Claim ==
    [][(TickStores /\ Untorn) =>
          IF LiveIsWhite
          THEN /\ displayed_btime' = displayed_btime
               /\ Val(displayed_wtime') <= Val(displayed_wtime)
          ELSE /\ displayed_wtime' = displayed_wtime
               /\ Val(displayed_btime') <= Val(displayed_btime)]_vars

\* C5: between events the live side is white after the seeding move_made and
\* after every second later move_made, black otherwise; no step of the
\* countdown thread changes it.
C5_Claim ==
    [][/\ ev_pc' = "stream" => (white_to_move' <=> (moves' - 1) % 2 = 0)
       /\ tk_pc' # tk_pc => white_to_move' = white_to_move]_vars

\* C6: the turn, time_left_at_move and move_time a tick computes from were all
\* written by one and the same move_made call.
C6_Claim == tk_pc = "l367" => (l_ids[1] = l_ids[2] /\ l_ids[2] = l_ids[3])

\* C7: once game_over_event is set it stays set, and from then on the countdown
\* thread stores no extrapolated time and writes no SHOW_TEXT.
C7_Claim ==
    [][game_over_event =>
          /\ game_over_event'
          /\ ~TickStores
          /\ ~TickSends3
          /\ ~TickSendsText]_vars

\* C8: a game sees at most one terminal command, and a game state that ends
\* the game and arrives when the countdown of the (first) game has already
\* flagged is ignored: it writes nothing and changes nothing of the clock.
C8_Claim ==
    [][/\ TerminalCount(out') <= 1
       /\ (game = 1 /\ game_over_event /\ ev_pc = "stream"
             /\ event'.status \in EndStatuses) =>
            (UNCHANGED clock_vars /\ out' = out)]_vars

\* C9: initialize_clock takes both times from the snapshot and clears
\* game_over_event, so a game that follows a finished one (nothing has ended
\* the new game yet) starts not over.
C9_Claim ==
    [][(ev_pc = "l296" /\ ev_pc' = "stream" /\ TerminalCount(out) = 0) =>
          /\ displayed_wtime' = Some(init_event'[1])
          /\ displayed_btime' = Some(init_event'[2])
          /\ ~game_over_event']_vars

\* C10: once the event flow has handled a game state that ends the game, a
\* terminal command has been written and game_over_event is set.
C10_Claim ==
    (ev_pc \in {"stream", "idle"} /\ event.status \in EndStatuses) =>
        (game_over_event /\ TerminalCount(out) >= 1)

\* C11: the writes are serialized: a SHOW_TEXT code byte '3' is immediately
\* followed by its own frame, and a frame immediately follows a '3'; no byte
\* of a command of the other flow comes in between.
C11_Claim ==
    \A i \in 1..Len(out) :
        /\ out[i].code = "3" =>
              IF i < Len(out) THEN out[i + 1].code = "text" ELSE tk_pc = "l210"
        /\ out[i].code = "text" => (i > 1 /\ out[i - 1].code = "3")

\* main is inside initialize_clock, between its lines 284 and 297
InInitialize == ev_pc \in {"l288", "l293", "l296"}

\* C12: in every state that the countdown thread can observe (it is alive),
\* the ones inside a move_made call included, and in every state in which main
\* is not inside initialize_clock, move_time and time_left_at_move are both
\* present or both absent.
C12_Claim ==
    (Running /\ (is_alive \/ ~InInitialize)) =>
        (Absent(move_time) <=> Absent(time_left_at_move))

\* a move_made call is under way (move_time written, time_left_at_move not
\* yet) while the countdown thread is between its two reads
C12_Witness ==
    /\ ev_pc = "l169"
    /\ tk_pc = "l364"
    /\ move_time = Some(now)
    /\ now > 0

\* C13: an iteration of time_keeper that finds move_time or time_left_at_move
\* absent (an iteration on an object that was never initialized included)
\* only waits: it changes no stored time, not the turn, not game_over_event,
\* writes nothing and raises no error.
C13_Claim ==
    [][(/\ tk_pc = "top" /\ tk_pc' # "top"
        /\ ~game_over_event
        /\ (Absent(move_time) \/ Absent(time_left_at_move))) =>
          /\ tk_pc' = "l387"
          /\ UNCHANGED <<clock_vars, game_over_event, out>>]_vars

\* C14: a write failure in an iteration of the countdown ends the loop and
\* reaches the game session that owns it: the session observes the failure and
\* does not go on to handle a move of that game as if the clock still ran.
C14_Claim ==
    [][tk_pc = "failed" =>
          /\ tk_pc' = "failed" \/ ev_pc = "l296"
          /\ ev_pc = "stream" => ev_pc' # "l169"]_vars

\* line is text cut to exactly lcd_length characters when text is longer, and
\* text followed by spaces up to lcd_length characters when it is shorter
IsLine(line, text) ==
    /\ Len(line) = lcd_length
    /\ \A k \in 1..lcd_length :
          SubSeq(line, k, k) = IF k <= Len(text) THEN SubSeq(text, k, k) ELSE " "

\* C15: every frame written is exactly 2 x lcd_length characters: the line
\* "W: <white duration>" then the line "B: <black duration>", each cut to
\* lcd_length characters when longer and padded with spaces when shorter; two
\* calls with the same durations write the same characters.
C15_Claim ==
    \A i \in 1..Len(out) : out[i].code = "text" =>
        /\ Len(Bytes(out[i])) = 2 * lcd_length
        /\ IsLine(SubSeq(Bytes(out[i]), 1, lcd_length),
                  "W: " \o str_timedelta(out[i].wtime))
        /\ IsLine(SubSeq(Bytes(out[i]), lcd_length + 1, 2 * lcd_length),
                  "B: " \o str_timedelta(out[i].btime))
        /\ \A j \in 1..Len(out) :
              (out[j].code = "text" /\ out[j].wtime = out[i].wtime
                 /\ out[j].btime = out[i].btime) => Bytes(out[j]) = Bytes(out[i])

\* two calls with the same durations, the white line too long for the display
\* and the black line shorter than it
C15_Witness ==
    /\ Len(out) = 4
    /\ out[2] = out[4]
    /\ Bytes(out[2]) = "W: 1 day, 0:00:0B: 0:00:01      "

\* the codes of the wire table (the switch of chess_clock.ino)
WireCodes == {"2", "3", "4", "5", "6", "7", "8", "@"}

\* the write() calls of a step, each as the characters it wrote
Written ==
    [k \in 1..(Len(out') - Len(out)) |-> Bytes(out'[Len(out) + k])]

\* C16: a command without payload writes exactly one byte, the code the wire
\* table gives it (GAME_OVER '2', NEW_GAME '4', SPLASH '5', WHITE_WON '6',
\* BLACK_WON '7', DRAWN '8'); WHITE_WON, BLACK_WON and DRAWN write no GAME_OVER
\* byte besides; SHOW_TEXT writes '3' and then the characters of the frame.
C16_Claim ==
    [][/\ (out' # out /\ game' = game) =>
            \/ /\ Len(Written) = 1
               /\ Len(Written[1]) = 1
               /\ Written[1] \in WireCodes \ {"3"}
            \/ /\ Len(Written) = 2
               /\ Written[1] = "3"
               /\ Len(Written[2]) = 2 * lcd_length
       /\ start_new_game => (Len(out') = 1 /\ Bytes(out'[1]) = "4")
       /\ (calls' # calls /\ game_over(out, TRUE)) => Written = <<"2">>
       /\ (calls' # calls /\ show_splash) => Written = <<"5">>
       /\ (calls' # calls /\ white_won) => Written = <<"6">>
       /\ (calls' # calls /\ black_won) => Written = <<"7">>
       /\ (calls' # calls /\ drawn_game) => Written = <<"8">>
       /\ call_updateLCD =>
            Written = <<"3", timestamp(Val(displayed_wtime'),
                                       Val(displayed_btime'))>>]_vars

\* white_won() was called, then updateLCD: '6', then '3' and a frame
C16_Witness ==
    /\ Len(out) = 3
    /\ Bytes(out[1]) = "6"
    /\ Bytes(out[2]) = "3"
    /\ Len(Bytes(out[3])) = 2 * lcd_length
    /\ game_over_event

\* C17: once game_over_event is set the countdown thread ends, and it ends by
\* leaving its loop normally, never by an exception, whether it set the event
\* itself (a flag) or found it set at the top of an iteration.
C17_Claim == [][tk_pc' = "raised" => tk_pc = "raised"]_vars

\* C18: the first event of a game's stream, whatever its type, leads through
\* initialize_clock to exactly one (seeding) move_made and only then to the
\* start of the countdown thread; every later gameState event is one more
\* move_made call.
C18_Claim ==
    [][/\ ev_pc = "l288" => ev_pc' # "crashed"
       /\ (ev_pc = "l296" /\ ev_pc' = "stream") =>
            /\ tk_pc \in {"none", "raised", "failed"}
            /\ tk_pc' = "top"
            /\ moves' = 1
            /\ ~white_to_move'
       /\ (ev_pc = "stream" /\ ev_pc' = "l169") => moves' = moves + 1]_vars

\* C19: at most one countdown thread is alive at any moment: initialize_clock
\* starts a thread only when none is alive (none yet, or the previous one has
\* ended), and when main enters it while one is alive it raises and starts
\* none.
C19_Claim ==
    [][/\ (ev_pc = "l296" /\ ev_pc' = "stream") =>
            tk_pc \in {"none", "raised", "failed"}
       /\ (ev_pc = "first" /\ ev_pc' \notin {"first", "idle"}
             /\ tk_pc \notin {"none", "raised", "failed"}) =>
            (ev_pc' = "crashed" /\ tk_pc' = tk_pc)]_vars

\* the second game's initialize_clock has raised: the first game's countdown
\* thread is still running (it is between the two writes of send_string)
C19_Witness ==
    /\ ev_pc = "crashed"
    /\ game = 2
    /\ tk_pc = "l210"

\* C20: when start_new_game is called for the second game while the first
\* game's countdown thread is alive and fails for it, the running countdown's
\* state is as it was before the call: the turn is the one the first game's
\* move_made calls left (white_to_move set iff there were an even number of
\* them), and move_time and time_left_at_move have their values.
C20_Claim ==
    (ev_pc = "crashed" /\ game = 2 /\ tk_pc \notin {"none", "raised", "failed"}) =>
        /\ white_to_move <=> (moves % 2 = 0)
        /\ ~Absent(move_time)
        /\ ~Absent(time_left_at_move)

====
